---- MODULE Spec2Model ----
(***************************************************************************)
(* A model of scrape_tepco.py: the TEPCO fuel-adjustment table scraper,    *)
(* the renewable-energy levy resolver, the current-rate selector and       *)
(* main().                                                                 *)
(*                                                                         *)
(* Text is a sequence of characters.  The module is ASCII only, so every   *)
(* non-ASCII character of the page is written as a one-character token:    *)
(*   "sankaku" U+25B2 (the negative marker)   "en"    U+5186 (yen)         *)
(*   "nen"     U+5E74 (year)                  "gatsu" U+6708 (month)       *)
(*   "bun"     U+5206                         "teki"  U+9069               *)
(*   "you"     U+7528                         "nen2"  U+71C3               *)
(*   "ryou"    U+6599                         "hi"    U+8CBB               *)
(*   "chou"    U+8ABF                         "sei"   U+6574               *)
(*   "tan"     U+5358                         "ka"    U+4FA1               *)
(*   "fu"      U+8CE6                         "ka2"   U+8AB2               *)
(*   "kin"     U+91D1                                                      *)
(*   "fw3" "fw4" "fw5" "fwdot": the fullwidth forms of 3, 4, 5 and "."     *)
(* A decimal number (a Python float read from a short decimal literal) is  *)
(* the record [num, scale] standing for num / 10^scale, with no trailing   *)
(* zero in the fraction, so that equal floats are equal records.           *)
(* An optional value (None or a value) is the record [some, v].            *)
(***************************************************************************)
EXTENDS Integers, Sequences, FiniteSets, TLC

VARIABLES
    pc,                \* position of the run
    text,              \* parse_price: the cell text handed in
    price_result,      \* parse_price: what the call produced
    rows_seen,         \* scrape_tepco_rates: number of rows the loop has taken
    current_year,      \* scrape_tepco_rates: the running year (line 183)
    fuel_adjustments,  \* scrape_tepco_rates: the list being built (line 181)
    declared,          \* history: year of the most recent row that declared one
    run_year,          \* history: what the most recent non-header 4-column row declared
    origin,            \* history: for each entry, the row and run_year that produced it
    args,              \* main: the parsed command line
    fuel_data,         \* main: result of scrape_tepco_rates
    levies,            \* get_renewable_energy_levy: the list being built
    year_idx,          \* get_renewable_energy_levy: position in years_to_check
    checked,           \* history: the calls of check_renewable_energy_pdf and their results
    today,             \* get_current_rates: datetime.date.today()
    current_rates,     \* main: result of get_current_rates
    file,              \* tepco_rates.json on disk
    error,             \* main: the step whose exception reached the except clause
    exit_status        \* the process's exit status, once it has ended

vars == << pc, text, price_result, rows_seen, current_year, fuel_adjustments,
           declared, run_year, origin, args, fuel_data, levies, year_idx,
           checked, today, current_rates, file, error, exit_status >>

----------------------------------------------------------------------------
(* Optional values and truthiness *)

None == [some |-> FALSE, v |-> 0]

Some(n) == [some |-> TRUE, v |-> n]

\* Python's truth value of an int-or-None: None and 0 are false.
Truthy(o) == o.some /\ o.v # 0

----------------------------------------------------------------------------
(* Characters and decimal numbers *)

Digits == {"0", "1", "2", "3", "4", "5", "6", "7", "8", "9"}

DigitVal(c) ==
    CASE c = "0" -> 0 [] c = "1" -> 1 [] c = "2" -> 2 [] c = "3" -> 3
      [] c = "4" -> 4 [] c = "5" -> 5 [] c = "6" -> 6 [] c = "7" -> 7
      [] c = "8" -> 8 [] c = "9" -> 9

DigitChar(n) ==
    CASE n = 0 -> "0" [] n = 1 -> "1" [] n = 2 -> "2" [] n = 3 -> "3"
      [] n = 4 -> "4" [] n = 5 -> "5" [] n = 6 -> "6" [] n = 7 -> "7"
      [] n = 8 -> "8" [] n = 9 -> "9"

RECURSIVE IntOf(_)
\* int(s) for a sequence of digits (0 for the empty sequence, used for fractions).
IntOf(s) ==
    IF s = << >> THEN 0
    ELSE 10 * IntOf(SubSeq(s, 1, Len(s) - 1)) + DigitVal(s[Len(s)])

RECURSIVE Pow10(_)
Pow10(k) == IF k = 0 THEN 1 ELSE 10 * Pow10(k - 1)

RECURSIVE Normal(_)
\* The canonical record of a decimal: trailing zeros of the fraction dropped.
Normal(d) ==
    IF d.scale > 0 /\ d.num % 10 = 0
    THEN Normal([num |-> d.num \div 10, scale |-> d.scale - 1])
    ELSE d

Zero == [num |-> 0, scale |-> 0]

Negate(d) == [num |-> 0 - d.num, scale |-> d.scale]

RECURSIVE Filter(_, _)
\* The characters of s that are in keep, in order.
Filter(s, keep) ==
    IF s = << >> THEN << >>
    ELSE IF s[1] \in keep THEN << s[1] >> \o Filter(Tail(s), keep)
         ELSE Filter(Tail(s), keep)

Contains(s, c) == \E i \in 1..Len(s) : s[i] = c

Count(s, c) == Cardinality({i \in 1..Len(s) : s[i] = c})

\* float(s) accepts a string of digits and dots iff it has at least one digit
\* and at most one dot; anything else raises ValueError.
FloatOk(s) == Count(s, ".") <= 1 /\ \E i \in 1..Len(s) : s[i] \in Digits

\* float(s) for an accepted string.
FloatOf(s) ==
    LET dot  == IF Contains(s, ".") THEN CHOOSE i \in 1..Len(s) : s[i] = "."
                ELSE Len(s) + 1
        ip   == SubSeq(s, 1, dot - 1)
        fp   == SubSeq(s, dot + 1, Len(s))
    IN  Normal([num |-> IntOf(ip) * Pow10(Len(fp)) + IntOf(fp), scale |-> Len(fp)])

----------------------------------------------------------------------------
(* parse_price, parse_year, parse_month *)

\* What a call produced: a value, or the exception it raised.
Returned(v) == [raised |-> FALSE, value |-> v]

Raised == [raised |-> TRUE, value |-> Zero]

parse_price(t) ==
    LET is_negative == Contains(t, "sankaku")
        amount_str  == Filter(t, Digits \cup {"."})
    IN  IF amount_str = << >> THEN Returned(Zero)
        ELSE IF ~FloatOk(amount_str) THEN Raised
        ELSE LET amount == FloatOf(amount_str)
             IN  Returned(IF is_negative THEN Negate(amount) ELSE amount)

\* re.search(r"(\d{4})", t): the leftmost four consecutive digits.
parse_year(t) ==
    LET at == {i \in 1..(Len(t) - 3) : \A k \in 0..3 : t[i + k] \in Digits}
    IN  IF at = {} THEN None
        ELSE LET i == CHOOSE j \in at : \A k \in at : j <= k
             IN  Some(IntOf(SubSeq(t, i, i + 3)))

\* re.search(r"(\d{1,2})", t): the leftmost digit and, greedily, the next one.
parse_month(t) ==
    LET at == {i \in 1..Len(t) : t[i] \in Digits}
    IN  IF at = {} THEN None
        ELSE LET i == CHOOSE j \in at : \A k \in at : j <= k
                 w == IF i + 1 <= Len(t) /\ t[i + 1] \in Digits THEN 2 ELSE 1
             IN  Some(IntOf(SubSeq(t, i, i + w - 1)))

----------------------------------------------------------------------------
(* Formatting *)

RECURSIVE Str(_)
\* str(n) for n >= 0, as characters.
Str(n) == IF n < 10 THEN << DigitChar(n) >> ELSE Str(n \div 10) \o << DigitChar(n % 10) >>

\* f"{n:02d}" for n >= 0.
Pad2(n) == IF n < 10 THEN << "0" >> \o Str(n) ELSE Str(n)

\* f"{year}-{month:02d}-01"
DateIso(year, month) == Str(year) \o << "-" >> \o Pad2(month) \o << "-", "0", "1" >>

----------------------------------------------------------------------------
(* scrape_tepco_rates: one iteration of the loop over the table rows.      *)
(* A row is the sequence of the texts of its td cells.                     *)

RECURSIVE Concat(_)
\* "".join(texts)
Concat(cells) == IF cells = << >> THEN << >> ELSE cells[1] \o Concat(Tail(cells))

\* pat in s
IsSubstring(pat, s) ==
    \E i \in 0..(Len(s) - Len(pat)) : \A k \in 1..Len(pat) : s[i + k] = pat[k]

\* The three header markers of line 196.
HeaderMarkers ==
    { << "teki", "you", "nen", "gatsu" >>,
      << "nen2", "ryou", "hi", "chou", "sei", "tan", "ka" >>,
      << "en", "/", "k", "W", "h" >> }

IsHeaderRow(cols) == \E m \in HeaderMarkers : IsSubstring(m, Concat(cols))

Entry(year, month, price) ==
    [ year      |-> year,
      month     |-> month,
      date_iso  |-> DateIso(year, month),
      price_kwh |-> price,
      area      |-> "Kanto",
      type      |-> "Low Voltage (Standard S)" ]

\* YearAfter with the year read only while none is held yet.
YearAfterOnce(cy, cols) == IF Len(cols) = 4 /\ ~cy.some THEN parse_year(cols[1]) ELSE cy

\* The year the loop holds after the column-count branch (lines 206-217).
YearAfter(cy, cols) == IF Len(cols) = 4 THEN parse_year(cols[1]) ELSE cy

\* The month read by the column-count branch.
MonthOf(cols) ==
    IF Len(cols) = 4 THEN parse_month(cols[2])
    ELSE IF Len(cols) = 3 THEN parse_month(cols[1])
    ELSE None

\* price_col_index, as a 1-based position.
PriceCol(cols) == IF Len(cols) = 4 THEN 4 ELSE 3

\* The guard of line 219.
Emits(year, month) == Truthy(year) /\ Truthy(month)

\* One iteration: the running year after it, the entry it appended (if any),
\* and whether parse_price raised out of it.
RowStep(cy, cols) ==
    IF cols = << >> \/ IsHeaderRow(cols) \/ Len(cols) \notin {3, 4}
    THEN [current_year |-> cy, emitted |-> FALSE, entry |-> Entry(0, 0, Zero),
          raised |-> FALSE]
    ELSE LET year  == YearAfter(cy, cols)
             month == MonthOf(cols)
         IN  IF ~Emits(year, month)
             THEN [current_year |-> year, emitted |-> FALSE,
                   entry |-> Entry(0, 0, Zero), raised |-> FALSE]
             ELSE LET price == parse_price(cols[PriceCol(cols)])
                  IN  IF price.raised
                      THEN [current_year |-> year, emitted |-> FALSE,
                            entry |-> Entry(0, 0, Zero), raised |-> TRUE]
                      ELSE [current_year |-> year, emitted |-> TRUE,
                            entry |-> Entry(year.v, month.v, price.value),
                            raised |-> FALSE]

RECURSIVE ScanRows(_, _, _)
\* The whole loop of lines 189-231 over the rows, from running year cy and
\* list acc: the list returned, or the exception raised.
ScanRows(cy, acc, rows) ==
    IF rows = << >> THEN [raised |-> FALSE, list |-> acc]
    ELSE LET r == RowStep(cy, rows[1])
         IN  IF r.raised THEN [raised |-> TRUE, list |-> << >>]
             ELSE ScanRows(r.current_year,
                           IF r.emitted THEN Append(acc, r.entry) ELSE acc,
                           Tail(rows))

----------------------------------------------------------------------------
(* check_renewable_energy_pdf                                              *)
(* The reply to requests.get is one of: "network_error" (requests raises), *)
(* "not_200", "bad_pdf" (PdfReader or extract_text raises) or "text" (the  *)
(* text of the pages).                                                     *)

NoPrice == [some |-> FALSE, v |-> Zero]

\* Python's truth value of a float-or-None: None and 0.0 are false.
PriceTruthy(p) == p.some /\ p.v.num # 0

\* unicodedata.normalize('NFKC', c) on the characters of the model.
NFKC(c) ==
    CASE c = "fw3" -> "3" [] c = "fw4" -> "4" [] c = "fw5" -> "5"
      [] c = "fwdot" -> "." [] OTHER -> c

RECURSIVE Remove(_, _)
\* s.replace(c, "")
Remove(s, c) ==
    IF Len(s) = 0 THEN << >>
    ELSE IF s[1] = c THEN Remove(Tail(s), c)
         ELSE << s[1] >> \o Remove(Tail(s), c)

\* Lines 76 and 94: normalise, then drop the newlines.
CleanPdfText(t) == Remove([i \in 1..Len(t) |-> NFKC(t[i])], "\n")

\* Length of the run of digits of t that starts at q (0 if none).
DigitRun(t, q) ==
    LET stops == {j \in q..(Len(t) + 1) : j = Len(t) + 1 \/ t[j] \notin Digits}
    IN  (CHOOSE j \in stops : \A k \in stops : j <= k) - q

\* (\d+(\.\d+)?) followed by the yen sign, matched at position q: the text
\* of group 1, or << >> when there is no match at q.  need_frac is TRUE for
\* the pattern (\d+\.\d+).
NumberAt(t, q, need_frac) ==
    LET n == DigitRun(t, q)
        m == IF n > 0 /\ q + n <= Len(t) /\ t[q + n] = "."
             THEN DigitRun(t, q + n + 1) ELSE 0
    IN  IF n = 0 THEN << >>
        ELSE IF m > 0 /\ q + n + m + 1 <= Len(t) /\ t[q + n + m + 1] = "en"
             THEN SubSeq(t, q, q + n + m)
        ELSE IF ~need_frac /\ q + n <= Len(t) /\ t[q + n] = "en"
             THEN SubSeq(t, q, q + n - 1)
        ELSE << >>

\* re.search(marker + r".*?" + number + yen, t): group 1, or << >>.
SearchAfter(marker, t, need_frac) ==
    LET starts == {p \in 1..(Len(t) - Len(marker) + 1) :
                      \A k \in 1..Len(marker) : t[p + k - 1] = marker[k]}
        hits   == {q \in 1..Len(t) :
                      /\ \E p \in starts : q >= p + Len(marker)
                      /\ NumberAt(t, q, need_frac) # << >>}
    IN  IF hits = {} THEN << >>
        ELSE NumberAt(t, CHOOSE q \in hits : \A k \in hits : q <= k, need_frac)

\* The value returned for a reply: a price, or None.
check_renewable_energy_pdf(year, reply) ==
    IF reply.kind # "text" THEN NoPrice
    ELSE LET t  == CleanPdfText(reply.text)
             m1 == SearchAfter(<< "tan", "ka" >>, t, FALSE)
             m2 == IF m1 # << >> THEN m1
                   ELSE SearchAfter(<< "fu", "ka2", "kin" >>, t, TRUE)
         IN  IF m2 # << >> THEN [some |-> TRUE, v |-> FloatOf(m2)] ELSE NoPrice

----------------------------------------------------------------------------
(* get_renewable_energy_levy *)

\* f"{year}-{month:02d}", a "YYYY-MM" string.
YearMonth(year, month) == Str(year) \o << "-" >> \o Pad2(month)

Dec(num, scale) == Normal([num |-> num, scale |-> scale])

\* The hardcoded list of lines 118-121.
HardcodedLevies ==
    << [start |-> YearMonth(2024, 5), end |-> YearMonth(2025, 4), price |-> Dec(349, 2)],
       [start |-> YearMonth(2025, 5), end |-> YearMonth(2026, 5), price |-> Dec(398, 2)] >>

years_to_check == << 2026, 2027 >>

\* Lines 137-141.
AlreadyHas(ls, year) == \E i \in 1..Len(ls) : ls[i].start = YearMonth(year, 5)

\* Lines 143-150: the list after the year's check returned price.
AfterCheck(ls, year, price) ==
    IF PriceTruthy(price)
    THEN Append(ls, [start |-> YearMonth(year, 5), end |-> YearMonth(year + 1, 5),
                     price |-> price.v])
    ELSE ls

----------------------------------------------------------------------------
(* get_current_rates *)

RECURSIVE SplitDash(_)
\* s.split('-'): the parts between the dashes.
SplitDash(s) ==
    IF ~Contains(s, "-") THEN << s >>
    ELSE LET i == CHOOSE j \in 1..Len(s) : s[j] = "-" /\ \A k \in 1..(j - 1) : s[k] # "-"
         IN  << SubSeq(s, 1, i - 1) >> \o SplitDash(SubSeq(s, i + 1, Len(s)))

\* int(part) succeeds on a non-empty string of digits.
IntOk(part) == part # << >> /\ \A i \in 1..Len(part) : part[i] \in Digits

\* start_y, start_m = map(int, s.split('-')): raises unless there are exactly
\* two parts and both are integers.  The value is year * 100 + month.
YearMonthOk(s) ==
    LET parts == SplitDash(s)
    IN  Len(parts) = 2 /\ IntOk(parts[1]) /\ IntOk(parts[2])

YearMonthVal(s) ==
    LET parts == SplitDash(s)
    IN  IntOf(parts[1]) * 100 + IntOf(parts[2])

\* InRange with the end of the period excluded.
InRangeOpenEnd(entry, curr_val) ==
    YearMonthVal(entry.start) <= curr_val /\ curr_val < YearMonthVal(entry.end)

\* Line 288.
InRange(entry, curr_val) ==
    YearMonthVal(entry.start) <= curr_val /\ curr_val <= YearMonthVal(entry.end)

RECURSIVE LevyForLast(_, _)
\* LevyFor without the break of line 290: the last containing period wins.
LevyForLast(levy_data, curr_val) ==
    IF levy_data = << >> THEN [raised |-> FALSE, val |-> NoPrice]
    ELSE LET entry == levy_data[Len(levy_data)]
         IN  IF InRange(entry, curr_val)
             THEN [raised |-> FALSE, val |-> [some |-> TRUE, v |-> entry.price]]
             ELSE LevyForLast(SubSeq(levy_data, 1, Len(levy_data) - 1), curr_val)

RECURSIVE LevyFor(_, _)
\* The loop of lines 256-290: the price of the first period that contains
\* curr_val (None if there is none), or the exception raised on the way.
LevyFor(levy_data, curr_val) ==
    IF levy_data = << >> THEN [raised |-> FALSE, val |-> NoPrice]
    ELSE LET entry == levy_data[1]
         IN  IF ~YearMonthOk(entry.start) \/ ~YearMonthOk(entry.end)
             THEN [raised |-> TRUE, val |-> NoPrice]
             ELSE IF InRange(entry, curr_val)
             THEN [raised |-> FALSE, val |-> [some |-> TRUE, v |-> entry.price]]
             ELSE LevyFor(Tail(levy_data), curr_val)

\* FuelFor with the found price tested for truth instead of the found entry.
FuelForTruthyPrice(fuel, year, month) ==
    LET at == {i \in 1..Len(fuel) : fuel[i].year = year /\ fuel[i].month = month}
    IN  IF at = {} \/ fuel[CHOOSE i \in at : \A k \in at : i <= k].price_kwh.num = 0
        THEN NoPrice
        ELSE [some |-> TRUE, v |-> fuel[CHOOSE i \in at : \A k \in at : i <= k].price_kwh]

\* Lines 241-245 and 296: the price of the first entry of today's year and
\* month, or None.  A found entry is a non-empty dict, hence true.
FuelFor(fuel, year, month) ==
    LET at == {i \in 1..Len(fuel) : fuel[i].year = year /\ fuel[i].month = month}
    IN  IF at = {} THEN NoPrice
        ELSE [some |-> TRUE, v |-> fuel[CHOOSE i \in at : \A k \in at : i <= k].price_kwh]

\* today.isoformat()
IsoFormat(d) == Str(d.year) \o << "-" >> \o Pad2(d.month) \o << "-" >> \o Pad2(d.day)

get_current_rates(fuel, levy_data, d) ==
    LET levy == LevyFor(levy_data, d.year * 100 + d.month)
    IN  [ raised  |-> levy.raised,
          summary |-> [ year                  |-> d.year,
                        month                 |-> d.month,
                        date_iso              |-> IsoFormat(d),
                        fuel_adjustment       |-> FuelFor(fuel, d.year, d.month),
                        renewable_energy_levy |-> levy.val ] ]

NoSummary ==
    [ year |-> 0, month |-> 0, date_iso |-> << >>, fuel_adjustment |-> NoPrice,
      renewable_energy_levy |-> NoPrice ]

----------------------------------------------------------------------------
(* get_standard_s_constants: prices in 1/100 yen *)

get_standard_s_constants ==
    [ base_rate_per_10a |-> Dec(31175, 2),
      base_rates        |-> [a \in {10, 20, 30, 40, 50, 60} |-> Dec(31175 * (a \div 10), 2)],
      usage_rates       |-> << [min |-> Some(0),   max |-> Some(120), price |-> Dec(2980, 2)],
                               [min |-> Some(121), max |-> Some(300), price |-> Dec(3640, 2)],
                               [min |-> Some(301), max |-> None,      price |-> Dec(4049, 2)] >> ]

----------------------------------------------------------------------------
(* scrape_tepco_rates: from the document to the list                       *)
(* A document is [anker01, link, table, rows]: whether div#anker01 exists; *)
(* what the fallback search over the a elements finds ("absent": no link   *)
(* with the section title, "no_question": a link outside any div.question, *)
(* "no_faq": a link whose div.question is in no div.faq-element, "found"); *)
(* whether the section holds a table; the rows of the table.               *)

\* Lines 165-178: "div" when the table is located, else the exception.
Locate(doc) ==
    LET target == IF doc.anker01 THEN "div"
                  ELSE CASE doc.link = "absent"      -> "none"
                         [] doc.link = "no_question" -> "AttributeError"
                         [] doc.link = "no_faq"      -> "none"
                         [] doc.link = "found"       -> "div"
    IN  IF target = "AttributeError" THEN "AttributeError"
        ELSE IF target = "none" THEN "ValueError"
        ELSE IF ~doc.table THEN "ValueError"
        ELSE "table"

scrape_tepco_rates(doc) ==
    IF Locate(doc) # "table" THEN [raised |-> TRUE, list |-> << >>]
    ELSE ScanRows(None, << >>, doc.rows)

----------------------------------------------------------------------------
(* Bounds and inputs *)

\* Longest cell text handed to parse_price on its own.
MaxLen == 3

\* Most rows the scan takes.
MaxRows == 3

PriceChars == {"0", "5", ".", "sankaku", "en"}

PriceTexts == UNION {[1..n -> PriceChars] : n \in 0..MaxLen}

YearCells ==
    { << "2", "0", "2", "5", "nen" >>, << "2", "0", "2", "6", "nen" >>,
      << "0", "0", "0", "0", "nen" >>, << "nen" >> }

MonthCells ==
    { << "1", "gatsu", "bun" >>, << "1", "2", "gatsu", "bun" >>,
      << "1", "3", "gatsu", "bun" >>, << "0", "gatsu", "bun" >>, << "gatsu", "bun" >> }

PriceCells == { << "5", ".", "2", "en" >>, << "sankaku", "1", ".", "5", "en" >>, << "." >> }

\* The cell of the other tariff plan, which the scan never reads.
OtherCell == << "5", ".", "1", "en" >>

HeaderRows ==
    { << << "teki", "you", "nen", "gatsu" >>, << "en", "/", "k", "W", "h" >> >>,
      << << "2", "0", "2", "6", "nen" >>, << "1", "gatsu", "bun" >>,
         << "en", "/", "k", "W", "h" >>, << "5", ".", "2", "en" >> >>,
      << << "1", "gatsu", "bun" >>, << "nen2", "ryou", "hi", "chou", "sei", "tan", "ka" >>,
         << "5", ".", "2", "en" >> >> }

OddRows ==
    { << >>,
      << << "1", "gatsu", "bun" >>, << "5", ".", "2", "en" >> >>,
      << << "2", "0", "2", "6", "nen" >>, << "1", "gatsu", "bun" >>, OtherCell, OtherCell,
         << "5", ".", "2", "en" >> >> }

Rows ==
    HeaderRows \cup OddRows
      \cup { << y, m, OtherCell, p >> : y \in YearCells, m \in MonthCells, p \in PriceCells }
      \cup { << m, OtherCell, p >> : m \in MonthCells, p \in PriceCells }

----------------------------------------------------------------------------
(* Values of the variables a specification does not use *)

NoFile == [content |-> "absent", keys |-> << >>]

NoArgs == [file |-> FALSE, scrape_pdf |-> FALSE]

NoDate == [year |-> 0, month |-> 0, day |-> 0]

PriceIdle == text = << >> /\ price_result = Returned(Zero)

ScanIdle ==
    /\ rows_seen = 0 /\ current_year = None /\ fuel_adjustments = << >>
    /\ declared = None /\ run_year = None /\ origin = << >>

MainIdle ==
    /\ args = NoArgs /\ fuel_data = << >> /\ levies = << >> /\ year_idx = 0
    /\ checked = << >> /\ today = NoDate /\ current_rates = NoSummary
    /\ file = NoFile /\ error = "none" /\ exit_status = None

priceVars == << text, price_result >>

scanVars == << rows_seen, current_year, fuel_adjustments, declared, run_year, origin >>

mainVars == << args, fuel_data, levies, year_idx, checked, today, current_rates, file,
               error, exit_status >>

----------------------------------------------------------------------------
(* parse_price on its own *)

InitPrice == pc = "parse_price" /\ text \in PriceTexts /\ price_result = Returned(Zero)
                /\ ScanIdle /\ MainIdle

ParsePrice ==
    /\ pc = "parse_price"
    /\ price_result' = parse_price(text)
    /\ pc' = IF parse_price(text).raised THEN "price_raised" ELSE "price_returned"
    /\ UNCHANGED << text, scanVars, mainVars >>

NextPrice == ParsePrice

SpecPrice == InitPrice /\ [][NextPrice]_vars

----------------------------------------------------------------------------
(* The row scan of scrape_tepco_rates, one row at a time *)

\* What a row declares, in the words of the data model: a non-header row of
\* four cells whose first cell holds a four-digit run declares that year.
IsYearRow(cols) == cols # << >> /\ ~IsHeaderRow(cols) /\ Len(cols) = 4

DeclaredBy(cols) == IF IsYearRow(cols) THEN parse_year(cols[1]) ELSE None

InitScan == pc = "scan" /\ ScanIdle /\ PriceIdle /\ MainIdle

\* One iteration of the loop of lines 189-231.
ScanRow ==
    /\ pc = "scan"
    /\ rows_seen < MaxRows
    /\ \E cols \in Rows :
         LET r == RowStep(current_year, cols)
         IN  /\ rows_seen' = rows_seen + 1
             /\ declared' = IF DeclaredBy(cols).some THEN DeclaredBy(cols) ELSE declared
             /\ run_year' = IF IsYearRow(cols) THEN DeclaredBy(cols) ELSE run_year
             /\ IF r.raised
                THEN /\ pc' = "scan_raised"
                     /\ UNCHANGED << current_year, fuel_adjustments, origin >>
                ELSE /\ pc' = "scan"
                     /\ current_year' = r.current_year
                     /\ fuel_adjustments' =
                          IF r.emitted THEN Append(fuel_adjustments, r.entry)
                          ELSE fuel_adjustments
                     /\ origin' =
                          IF r.emitted
                          THEN Append(origin, [run_year |-> run_year', ncols |-> Len(cols)])
                          ELSE origin
    /\ UNCHANGED << priceVars, mainVars >>

\* Line 233: the rows are exhausted.
ScanReturn ==
    /\ pc = "scan"
    /\ pc' = "scan_returned"
    /\ UNCHANGED << priceVars, scanVars, mainVars >>

NextScan == ScanRow \/ ScanReturn

SpecScan == InitScan /\ [][NextScan]_vars

----------------------------------------------------------------------------
(* main: the whole run *)

Cell2025 == << "2", "0", "2", "5", "nen" >>

Cell2026 == << "2", "0", "2", "6", "nen" >>

\* A page found by its id: a header row, then 2025-04 (price 0.00),
\* 2025-07, 2026-05 and 2026-06.
PageById ==
    [ anker01 |-> TRUE, link |-> "absent", table |-> TRUE,
      rows |-> << << << "teki", "you", "nen", "gatsu" >>, << "en", "/", "k", "W", "h" >> >>,
                  << Cell2025, << "4", "gatsu", "bun" >>, OtherCell, << "0", ".", "0", "0", "en" >> >>,
                  << << "7", "gatsu", "bun" >>, OtherCell, << "sankaku", "1", ".", "5", "en" >> >>,
                  << Cell2026, << "5", "gatsu", "bun" >>, OtherCell, << "5", ".", "2", "en" >> >>,
                  << << "6", "gatsu", "bun" >>, OtherCell, << "5", ".", "2", "en" >> >> >> ]

\* A page found by the fallback search, whose table lists 2026-05 twice.
PageByLink ==
    [ anker01 |-> FALSE, link |-> "found", table |-> TRUE,
      rows |-> << << Cell2026, << "5", "gatsu", "bun" >>, OtherCell, << "5", ".", "2", "en" >> >>,
                  << << "5", "gatsu", "bun" >>, OtherCell, << "sankaku", "1", ".", "5", "en" >> >> >> ]

MainDocs ==
    { PageById, PageByLink,
      [anker01 |-> FALSE, link |-> "absent", table |-> TRUE, rows |-> << >>],
      [anker01 |-> FALSE, link |-> "no_question", table |-> TRUE, rows |-> << >>],
      [anker01 |-> FALSE, link |-> "no_faq", table |-> TRUE, rows |-> << >>],
      [anker01 |-> TRUE, link |-> "absent", table |-> FALSE, rows |-> << >>],
      [anker01 |-> TRUE, link |-> "absent", table |-> TRUE,
       rows |-> << << Cell2025, << "4", "gatsu", "bun" >>, OtherCell, << "." >> >> >>] }

\* How the page is obtained: the outcome of reading args.file ("error",
\* "empty", "html") and of the fetch of URL ("error", "html").
Sources == [read : {"error", "empty", "html"}, fetch : {"error", "html"}, doc : MainDocs]

\* Lines 309-314 and 155-161: the page is read from the file when one is
\* named and its content is not empty, else fetched; TRUE when that raises.
LoadRaises(a, src) ==
    IF a.file /\ src.read = "error" THEN TRUE
    ELSE IF a.file /\ src.read = "html" THEN FALSE
    ELSE src.fetch = "error"

Replies ==
    { [kind |-> "network_error", text |-> << >>],
      [kind |-> "not_200", text |-> << >>],
      [kind |-> "bad_pdf", text |-> << >>],
      [kind |-> "text", text |-> << "tan", "ka", "2", "0", "2", "6", "nen", "\n",
                                    "fw3", "fwdot", "fw5", "en" >>],
      [kind |-> "text", text |-> << "fu", "ka2", "kin", "4", "en", "4", ".", "1", "en" >>],
      [kind |-> "text", text |-> << "fu", "ka2", "kin", "4", "en" >>],
      [kind |-> "text", text |-> << "tan", "ka", "0", "en" >>] }

Todays == [year : 2025..2027, month : 1..12, day : {1, 28}]

OutputKeys == << "current_rates", "fuel_adjustment", "standard_s", "renewable_energy_levy" >>

Init ==
    /\ pc = "main"
    /\ args \in [file : BOOLEAN, scrape_pdf : BOOLEAN]
    /\ file \in {NoFile, [content |-> "previous", keys |-> OutputKeys]}
    /\ fuel_data = << >> /\ levies = << >> /\ year_idx = 0 /\ checked = << >>
    /\ today = NoDate /\ current_rates = NoSummary
    /\ error = "none" /\ exit_status = None
    /\ PriceIdle /\ ScanIdle

\* Lines 309-314: scrape_tepco_rates, from the file or from the network.
Scrape ==
    /\ pc = "main"
    /\ \E src \in Sources :
         LET r == scrape_tepco_rates(src.doc)
         IN  IF LoadRaises(args, src) \/ r.raised
             THEN pc' = "except" /\ error' = "scrape_tepco_rates" /\ UNCHANGED fuel_data
             ELSE pc' = "levy" /\ fuel_data' = r.list /\ UNCHANGED error
    /\ UNCHANGED << priceVars, scanVars, args, levies, year_idx, checked, today,
                    current_rates, file, exit_status >>

\* Lines 118-133.
LevyStart ==
    /\ pc = "levy"
    /\ levies' = HardcodedLevies
    /\ IF args.scrape_pdf THEN pc' = "levy_loop" /\ year_idx' = 1
                          ELSE pc' = "rates" /\ UNCHANGED year_idx
    /\ UNCHANGED << priceVars, scanVars, args, fuel_data, checked, today, current_rates,
                    file, error, exit_status >>

\* Lines 135-150: one year of years_to_check; after the last, line 152.
LevyYear ==
    /\ pc = "levy_loop"
    /\ LET year == years_to_check[year_idx]
       IN  IF AlreadyHas(levies, year)
           THEN UNCHANGED << levies, checked >>
           ELSE \E reply \in Replies :
                  LET price == check_renewable_energy_pdf(year, reply)
                  IN  /\ levies' = AfterCheck(levies, year, price)
                      /\ checked' = Append(checked, [year |-> year, kind |-> reply.kind,
                                                     price |-> price])
    /\ year_idx' = year_idx + 1
    /\ pc' = IF year_idx = Len(years_to_check) THEN "rates" ELSE "levy_loop"
    /\ UNCHANGED << priceVars, scanVars, args, fuel_data, today, current_rates, file,
                    error, exit_status >>

\* Line 319: get_current_rates(fuel_data, levy_data).
Rates ==
    /\ pc = "rates"
    /\ \E d \in Todays :
         LET r == get_current_rates(fuel_data, levies, d)
         IN  /\ today' = d
             /\ IF r.raised
                THEN pc' = "except" /\ error' = "get_current_rates"
                     /\ UNCHANGED current_rates
                ELSE pc' = "open" /\ current_rates' = r.summary /\ UNCHANGED error
    /\ UNCHANGED << priceVars, scanVars, args, fuel_data, levies, year_idx, checked,
                    file, exit_status >>

\* Line 325: open(OUTPUT_FILE, 'w') creates or truncates the file.
OpenOutput ==
    /\ pc = "open"
    /\ file' = [content |-> "new", keys |-> << >>]
    /\ pc' = "dump"
    /\ UNCHANGED << priceVars, scanVars, args, fuel_data, levies, year_idx, checked,
                    today, current_rates, error, exit_status >>

\* Line 325: open raises (no permission, no such directory).
OpenFails ==
    /\ pc = "open"
    /\ pc' = "except" /\ error' = "open"
    /\ UNCHANGED << priceVars, scanVars, args, fuel_data, levies, year_idx, checked,
                    today, current_rates, file, exit_status >>

\* Line 326: json.dump writes the document piece by piece, here key by key.
DumpKey ==
    /\ pc = "dump"
    /\ file' = [file EXCEPT !.keys = Append(@, OutputKeys[Len(@) + 1])]
    /\ pc' = IF Len(file.keys) + 1 = Len(OutputKeys) THEN "print" ELSE "dump"
    /\ UNCHANGED << priceVars, scanVars, args, fuel_data, levies, year_idx, checked,
                    today, current_rates, error, exit_status >>

\* Line 326: a write raises OSError (disk full, I/O error); the with
\* statement closes the file and the exception goes on to line 330.
DumpFails ==
    /\ pc = "dump"
    /\ pc' = "except" /\ error' = "json.dump"
    /\ UNCHANGED << priceVars, scanVars, args, fuel_data, levies, year_idx, checked,
                    today, current_rates, file, exit_status >>

\* Line 328 and the end of main.
Succeed ==
    /\ pc = "print"
    /\ pc' = "exited" /\ exit_status' = Some(0)
    /\ UNCHANGED << priceVars, scanVars, args, fuel_data, levies, year_idx, checked,
                    today, current_rates, file, error >>

\* Lines 330-335.
Except ==
    /\ pc = "except"
    /\ pc' = "exited" /\ exit_status' = Some(1)
    /\ UNCHANGED << priceVars, scanVars, args, fuel_data, levies, year_idx, checked,
                    today, current_rates, file, error >>

Next ==
    \/ Scrape \/ LevyStart \/ LevyYear \/ Rates \/ OpenOutput \/ OpenFails
    \/ DumpKey \/ DumpFails \/ Succeed \/ Except

Spec == Init /\ [][Next]_vars

----------------------------------------------------------------------------
(* Properties of the row scan (SpecScan) *)

\* C1: every entry emitted for a non-header 4-column row that declares year
\* Y, and for the 3-column rows that follow it before the next 4-column row,
\* has year = Y.
C1_RunKeepsDeclaredYear ==
    \A i \in 1..Len(fuel_adjustments) :
        origin[i].run_year.some => fuel_adjustments[i].year = origin[i].run_year.v

\* A 4-column row declaring 2025 emitted an entry, and a 3-column row after
\* it emitted the next one, with year 2025.
C1_Witness ==
    \E i \in 2..Len(fuel_adjustments) :
        /\ origin[i - 1].ncols = 4 /\ origin[i - 1].run_year = Some(2025)
        /\ origin[i].ncols = 3 /\ origin[i].run_year = Some(2025)
        /\ fuel_adjustments[i].year = 2025

\* C2: every entry emitted by scrape_tepco_rates has month in 1..12.
C2_MonthInRange ==
    \A i \in 1..Len(fuel_adjustments) : fuel_adjustments[i].month \in 1..12

\* C3: no two entries of the list have the same (year, month).
C3_UniqueYearMonth ==
    \A i, j \in 1..Len(fuel_adjustments) :
        i # j => << fuel_adjustments[i].year, fuel_adjustments[i].month >>
                   # << fuel_adjustments[j].year, fuel_adjustments[j].month >>

\* C9: after any prefix of the rows the running year is the year declared by
\* the most recent row that declared one, or unset if there was none; rows
\* that declare no year leave it unchanged.
C9_CurrentYearIsDeclared ==
    pc \in {"scan", "scan_returned"} => current_year = declared

----------------------------------------------------------------------------
(* Property of parse_price (SpecPrice) *)

\* C8: parse_price raises no error for any cell text; it returns a number.
C8_ParsePriceNeverRaises == pc # "price_raised"

----------------------------------------------------------------------------
(* Properties of the run of main (Spec) *)

\* get_current_rates has returned its summary.
Selected == today # NoDate /\ error # "get_current_rates"

\* The period's inclusive range holds the date's year and month, read off
\* the "YYYY-MM" strings by position and compared as (year, month) pairs.
Covers(period, d) ==
    LET ys == IntOf(SubSeq(period.start, 1, 4))
        ms == IntOf(SubSeq(period.start, 6, 7))
        ye == IntOf(SubSeq(period.end, 1, 4))
        me == IntOf(SubSeq(period.end, 6, 7))
    IN  /\ ys < d.year \/ (ys = d.year /\ ms <= d.month)
        /\ d.year < ye \/ (d.year = ye /\ d.month <= me)

Covering == {i \in 1..Len(levies) : Covers(levies[i], today)}

FirstCovering == CHOOSE i \in Covering : \A k \in Covering : i <= k

\* C4: the reported renewable_energy_levy is the price of a levy period whose
\* inclusive range contains today's year-month; for today = 2025-07 it is
\* 3.98 and for today = 2025-04 it is 3.49.
C4_LevyOfContainingPeriod ==
    Selected =>
      /\ current_rates.renewable_energy_levy.some =>
           \E i \in Covering : levies[i].price = current_rates.renewable_energy_levy.v
      /\ (today.year = 2025 /\ today.month = 7) =>
           current_rates.renewable_energy_levy = [some |-> TRUE, v |-> Dec(398, 2)]
      /\ (today.year = 2025 /\ today.month = 4) =>
           current_rates.renewable_energy_levy = [some |-> TRUE, v |-> Dec(349, 2)]

\* The summary for 2025-04, the last month of the first period, reports 3.49.
C4_Witness ==
    /\ pc = "open" /\ today.year = 2025 /\ today.month = 4
    /\ current_rates.renewable_energy_levy = [some |-> TRUE, v |-> Dec(349, 2)]

\* C5: get_current_rates returns without raising; fuel_adjustment is None
\* exactly when no entry has today's (year, month), otherwise the price_kwh
\* of such an entry; renewable_energy_levy is None exactly when no period's
\* inclusive range contains today's year-month.
C5_AbsentIsNoneNotError ==
    /\ error # "get_current_rates"
    /\ Selected =>
         LET hits == {i \in 1..Len(fuel_data) :
                         fuel_data[i].year = today.year /\ fuel_data[i].month = today.month}
         IN  /\ current_rates.fuel_adjustment.some <=> hits # {}
             /\ current_rates.fuel_adjustment.some =>
                  \E i \in hits : fuel_data[i].price_kwh = current_rates.fuel_adjustment.v
             /\ current_rates.renewable_energy_levy.some <=> Covering # {}

\* A summary with both values absent was returned although the fuel list is
\* not empty.
C5_Witness ==
    /\ pc = "open" /\ fuel_data # << >>
    /\ ~current_rates.fuel_adjustment.some
    /\ ~current_rates.renewable_energy_levy.some

\* C6: with PDF discovery enabled get_renewable_energy_levy returns for every
\* combination of per-year outcomes; both 2026 and 2027 are checked; a year
\* whose check found no price adds no period and a year whose price is found
\* adds exactly one period {start: year-05, end: (year+1)-05, price}.
C6_FoundPriceAddsOnePeriod ==
    (args.scrape_pdf /\ pc = "rates") =>
      /\ Len(checked) = 2 /\ checked[1].year = 2026 /\ checked[2].year = 2027
      /\ \A i \in 1..Len(checked) :
           LET c     == checked[i]
               added == {j \in 1..Len(levies) : levies[j].start = YearMonth(c.year, 5)}
           IN  IF c.price.some
               THEN /\ Cardinality(added) = 1
                    /\ \A j \in added :
                         /\ levies[j].end = YearMonth(c.year + 1, 5)
                         /\ levies[j].price = c.price.v
               ELSE added = {}

\* C7: a run in which a step failed ends with a non-zero exit status and has
\* written nothing to tepco_rates.json; the file is written, with exactly
\* the four fields, only on a run that ends with exit status zero.
C7_NoPartialOutput ==
    pc = "exited" =>
      IF error # "none"
      THEN exit_status.v # 0 /\ file.content # "new"
      ELSE exit_status.v = 0 /\ file = [content |-> "new", keys |-> OutputKeys]

\* C10: when several periods contain today's year-month the earliest in list
\* order is reported; for today = 2026-05 that is the hardcoded 3.98 even
\* when a period starting 2026-05 was discovered, whose price is reported
\* only from 2026-06 on.
C10_EarliestPeriodWins ==
    Selected =>
      /\ Covering # {} =>
           current_rates.renewable_energy_levy
             = [some |-> TRUE, v |-> levies[FirstCovering].price]
      /\ (today.year = 2026 /\ today.month = 5) =>
           current_rates.renewable_energy_levy = [some |-> TRUE, v |-> Dec(398, 2)]
      /\ \A i \in 3..Len(levies) :
           levies[i].start = YearMonth(2026, 5) =>
             /\ (Covering # {} /\ FirstCovering = i) => today.year * 100 + today.month >= 202606
             /\ (today.year * 100 + today.month >= 202606 /\ i \in Covering) =>
                  current_rates.renewable_energy_levy = [some |-> TRUE, v |-> levies[i].price]

\* Today is 2026-05, a period starting 2026-05 was discovered with another
\* price, two periods contain today, and the summary reports 3.98.
C10_Witness ==
    /\ pc = "open" /\ today.year = 2026 /\ today.month = 5
    /\ Cardinality(Covering) > 1
    /\ \E i \in 3..Len(levies) :
         levies[i].start = YearMonth(2026, 5) /\ levies[i].price # Dec(398, 2)
    /\ current_rates.renewable_energy_levy = [some |-> TRUE, v |-> Dec(398, 2)]

====
